---------------------------- MODULE Spec2Model ----------------------------
(***************************************************************************)
(* A model of git_summary.py: the commit-log parser, the classifier, the   *)
(* aggregation functions and generate_summary.                             *)
(*                                                                         *)
(* Python strings are sequences of one-character strings, so that          *)
(* splitting, stripping, substring search, lower-casing and integer        *)
(* parsing are computed as the code computes them.  A text is the sequence *)
(* of its lines, i.e. the value of text.split("\n"); the empty text is the *)
(* one-element sequence holding the empty line.                            *)
(***************************************************************************)
EXTENDS Integers, Sequences, FiniteSets, Bags, TLC

VARIABLES
    pc,              \* position of the running function
    raised,          \* "" or the name of the exception that ended the run
    output,          \* parse_commit_output: the lines of its argument
    idx,             \* number of loop iterations done
    commits,         \* parse_commit_output: commits
    current_commit,  \* parse_commit_output: <<>> for None, <<c>> otherwise
    active_emails,   \* parse_commit_output: active_emails
    subject,         \* categorize_commit: its argument
    category,        \* categorize_commit: its result, "" before the call
    n_commits,       \* calculate_frequency_stats: len(commits)
    total_days,      \* calculate_frequency_stats: total_days
    period,          \* calculate_frequency_stats: "None" or the unit
    frequency,       \* <<>> for None, else <<the rate in tenths>>
    dir_level,       \* analyze_directories: dir_level
    dir_stats,       \* analyze_directories: dir_stats, in insertion order
    directories,     \* the result of format_directory_stats
    file_changes,    \* the bag of the file changes of the commits analysed
    total_added,     \* generate_summary: total_added
    total_deleted,   \* generate_summary: total_deleted
    history,         \* the commits of the repository the program runs in
    args,            \* generate_summary: its arguments
    emails,          \* generate_summary: emails after lines 353-354
    author_args,     \* get_user_commits: the --author values of the query
    parsed_commits,  \* generate_summary: parsed_commits
    cocomo,          \* <<>>, or <<the locals of calculate_cocomo_stats>>
    report,          \* the values printed: authors, count, categories, ...
    stdout           \* the sections printed so far

parseVars == <<output, idx, commits, current_commit, active_emails>>
classVars == <<subject, category>>
freqVars == <<n_commits, total_days, period, frequency>>
dirVars ==
    <<dir_level, dir_stats, directories, file_changes, total_added,
      total_deleted>>
sumVars ==
    <<history, args, emails, author_args, parsed_commits, cocomo, report,
      stdout>>
vars == <<pc, raised, parseVars, classVars, freqVars, dirVars, sumVars>>

(***************************************************************************)
(* Bounds of the model.                                                    *)
(***************************************************************************)
MaxLines == 3
MaxWords == 2
MaxCommits == 4
MaxDays == 730
MaxNegDays == 2
MaxLevel == 3
MaxFiles == 2
MaxAnalysed == 3
MaxWindow == 1

(***************************************************************************)
(* Strings.                                                                *)
(***************************************************************************)
SEP == <<"<", "s", "e", "p", ">">>
TAB == <<"\t">>
Whitespace == {" ", "\t"}
Digits == <<"0", "1", "2", "3", "4", "5", "6", "7", "8", "9">>
DigitSet == {Digits[i] : i \in 1..10}

\* s[i..j] as Python's s[i-1:j]
Slice(s, i, j) == IF j < i THEN <<>> ELSE SubSeq(s, i, j)

\* w occurs in s at position i (1-based)
OccursAt(s, w, i) ==
    /\ i + Len(w) - 1 <= Len(s)
    /\ \A k \in 1..Len(w) : s[i + k - 1] = w[k]

\* Python: w in s
Contains(s, w) == \E i \in 1..(Len(s) - Len(w) + 1) : OccursAt(s, w, i)

\* Python: s.startswith(w)
StartsWith(s, w) == OccursAt(s, w, 1)

\* Python: s.find(w) + 1 (0 when absent)
Find(s, w) ==
    IF Contains(s, w)
    THEN CHOOSE i \in 1..(Len(s) - Len(w) + 1) :
            /\ OccursAt(s, w, i)
            /\ \A j \in 1..(i - 1) : ~OccursAt(s, w, j)
    ELSE 0

\* Python: s.split(w), w non-empty
RECURSIVE Split(_, _)
Split(s, w) ==
    LET i == Find(s, w)
    IN  IF i = 0 THEN <<s>>
        ELSE <<Slice(s, 1, i - 1)>> \o Split(Slice(s, i + Len(w), Len(s)), w)

\* Python: w.join(parts)
RECURSIVE Join(_, _)
Join(parts, w) ==
    IF Len(parts) = 0 THEN <<>>
    ELSE IF Len(parts) = 1 THEN parts[1]
    ELSE parts[1] \o w \o Join(Tail(parts), w)

RECURSIVE LStrip(_)
LStrip(s) == IF Len(s) > 0 /\ s[1] \in Whitespace THEN LStrip(Tail(s)) ELSE s

RECURSIVE RStrip(_)
RStrip(s) ==
    IF Len(s) > 0 /\ s[Len(s)] \in Whitespace
    THEN RStrip(Slice(s, 1, Len(s) - 1)) ELSE s

\* Python: s.strip()
Strip(s) == RStrip(LStrip(s))

DigitVal(c) == (CHOOSE i \in 1..10 : Digits[i] = c) - 1

\* the digits of a numeral, sign and surrounding whitespace removed
Numeral(s) ==
    LET t == Strip(s)
    IN  IF Len(t) > 0 /\ t[1] \in {"+", "-"} THEN Tail(t) ELSE t

\* Python: int(s) does not raise ValueError
IsInt(s) ==
    /\ Len(Numeral(s)) > 0
    /\ \A k \in 1..Len(Numeral(s)) : Numeral(s)[k] \in DigitSet

RECURSIVE DigitsVal(_)
DigitsVal(d) ==
    IF Len(d) = 0 THEN 0
    ELSE 10 * DigitsVal(Slice(d, 1, Len(d) - 1)) + DigitVal(d[Len(d)])

\* Python: int(s), for s with IsInt(s)
IntVal(s) ==
    LET t == Strip(s)
    IN  IF t[1] = "-" THEN 0 - DigitsVal(Numeral(s)) ELSE DigitsVal(Numeral(s))

(***************************************************************************)
(* parse_commit_output.                                                    *)
(***************************************************************************)
\* the local variables of parse_commit_output, and the exception it raised
ParserInit ==
    [commits |-> <<>>, current_commit |-> <<>>, active_emails |-> {},
     raised |-> ""]

\* lines 174-184: a line holding the delimiter starts a commit; the
\* unpacking of parts[:4] raises ValueError outside any try
HeaderLine(p, line) ==
    LET flushed ==
            IF p.current_commit # <<>>
            THEN [p EXCEPT !.commits = Append(@, p.current_commit[1])]
            ELSE p
        parts == Split(line, SEP)
    IN  IF Len(parts) < 4
        THEN [flushed EXCEPT !.raised = "ValueError"]
        ELSE [flushed EXCEPT
                !.current_commit =
                    << [hash |-> parts[1], subject |-> parts[2],
                        date |-> parts[3], files |-> <<>>] >>,
                !.active_emails = @ \cup {parts[4]}]

\* lines 186-193: a stat line.  The unpacking and int() raise ValueError,
\* which is caught; current_commit["files"] is evaluated before int() and
\* raises TypeError on None, which is not caught.
StatLine(p, line) ==
    LET parts == Split(line, TAB)
    IN  IF Len(parts) # 3 THEN p
        ELSE IF parts[1] = <<"-">> \/ parts[2] = <<"-">> THEN p
        ELSE IF p.current_commit = <<>>
        THEN [p EXCEPT !.raised = "TypeError"]
        ELSE IF ~IsInt(parts[1]) \/ ~IsInt(parts[2]) THEN p
        ELSE [p EXCEPT !.current_commit[1].files =
                Append(@, [name |-> parts[3], added |-> IntVal(parts[1]),
                           deleted |-> IntVal(parts[2])])]

\* lines 173-193: the body of the loop
ParseLine(p, line) ==
    IF Contains(line, SEP) THEN HeaderLine(p, line)
    ELSE IF Strip(line) # <<>> THEN StatLine(p, line)
    ELSE p

\* lines 195-196: the last commit is flushed
ParseEnd(p) ==
    IF p.current_commit # <<>>
    THEN [p EXCEPT !.commits = Append(@, p.current_commit[1])]
    ELSE p

\* parse_commit_output as a whole: the loop stops at the first exception
RECURSIVE ParseFrom(_, _, _)
ParseFrom(p, lines, i) ==
    IF p.raised # "" THEN p
    ELSE IF i > Len(lines) THEN ParseEnd(p)
    ELSE ParseFrom(ParseLine(p, lines[i]), lines, i + 1)

parse_commit_output(lines) == ParseFrom(ParserInit, lines, 1)


(***************************************************************************)
(* The lines the parser is run on: headers as git prints them, a header    *)
(* with too few fields (a body line holding the delimiter), numstat lines, *)
(* binary numstat lines, malformed lines and blank lines.                  *)
(***************************************************************************)
Hash1 == <<"a", "1">>
Hash2 == <<"b", "2">>
SubjFix == <<"f", "i", "x">>
SubjNew == <<"n", "e", "w">>
Date1 == <<"2", "0", "2", "4", "-", "0", "1", "-", "0", "5">>
Date2 == <<"2", "0", "2", "4", "-", "0", "1", "-", "0", "9">>
Email1 == <<"u", "@", "x">>
Email2 == <<"v", "@", "y">>

LineHeader1 == Join(<<Hash1, SubjFix, Date1, Email1, <<>> >>, SEP)
LineHeader2 == Join(<<Hash2, SubjNew, Date2, Email2>>, SEP)
LineShortHeader == Join(<<Hash2, SubjNew>>, SEP)
LineStat1 == Join(<<<<"3">>, <<"1">>, <<"a", "/", "b">>>>, TAB)
LineStat2 == Join(<<<<"1", "0">>, <<"0">>, <<"c">>>>, TAB)
LineBinary == Join(<<<<"-">>, <<"-">>, <<"i">>>>, TAB)
LineHalfBinary == Join(<<<<"4">>, <<"-">>, <<"i">>>>, TAB)
LineNonInt == Join(<<<<"x">>, <<"1">>, <<"c">>>>, TAB)
LineTwoFields == Join(<<<<"1">>, <<"2">>>>, TAB)
LineFourFields == Join(<<<<"1">>, <<"2">>, <<"a">>, <<"b">>>>, TAB)
LineBlank == <<>>
LineSpaces == <<" ", "\t">>
LineText == <<"w", "i", "p">>

LineSet ==
    {LineHeader1, LineHeader2, LineShortHeader, LineStat1, LineStat2,
     LineBinary, LineHalfBinary, LineNonInt, LineTwoFields, LineFourFields,
     LineBlank, LineSpaces, LineText}

Texts == UNION {[1..n -> LineSet] : n \in 1..MaxLines}

(***************************************************************************)
(* SpecParse: parse_commit_output run line by line on every text.          *)
(***************************************************************************)
Parser ==
    [commits |-> commits, current_commit |-> current_commit,
     active_emails |-> active_emails, raised |-> raised]

SetParser(p) ==
    /\ commits' = p.commits
    /\ current_commit' = p.current_commit
    /\ active_emails' = p.active_emails
    /\ raised' = p.raised

IdleParse ==
    /\ output = <<>>
    /\ idx = 0
    /\ commits = <<>>
    /\ current_commit = <<>>
    /\ active_emails = {}

IdleClass == subject = <<>> /\ category = ""

IdleFreq ==
    /\ n_commits = 0
    /\ total_days = 0
    /\ period = "None"
    /\ frequency = <<>>

IdleDir ==
    /\ dir_level = 1
    /\ dir_stats = <<>>
    /\ directories = <<>>
    /\ file_changes = EmptyBag
    /\ total_added = 0
    /\ total_deleted = 0

NoReport ==
    [commits_by |-> {}, total_commits |-> 0, categories |-> {},
     heavy_commits |-> <<>>, recent |-> <<>>]

IdleSum ==
    /\ history = {}
    /\ args = <<>>
    /\ emails = {}
    /\ author_args = {}
    /\ parsed_commits = <<>>
    /\ cocomo = <<>>
    /\ report = NoReport
    /\ stdout = <<>>

InitParse ==
    /\ pc = "parse"
    /\ IdleClass /\ IdleFreq /\ IdleDir /\ IdleSum
    /\ output \in Texts
    /\ idx = 0
    /\ commits = ParserInit.commits
    /\ current_commit = ParserInit.current_commit
    /\ active_emails = ParserInit.active_emails
    /\ raised = ParserInit.raised

\* one iteration of the loop of line 172
ParseStep ==
    /\ pc = "parse"
    /\ idx < Len(output)
    /\ LET p == ParseLine(Parser, output[idx + 1])
       IN  /\ SetParser(p)
           /\ pc' = IF p.raised # "" THEN "raised" ELSE "parse"
    /\ idx' = idx + 1
    /\ UNCHANGED <<output, classVars, freqVars, dirVars, sumVars>>

\* lines 195-198: the loop is over
ParseReturn ==
    /\ pc = "parse"
    /\ idx = Len(output)
    /\ SetParser(ParseEnd(Parser))
    /\ pc' = "returned"
    /\ UNCHANGED <<output, idx, classVars, freqVars, dirVars, sumVars>>

NextParse == ParseStep \/ ParseReturn

SpecParse == InitParse /\ [][NextParse]_vars

\* the indices of the lines holding the delimiter
HeaderIndices(lines) == {i \in 1..Len(lines) : Contains(lines[i], SEP)}

\* the k-th of them
NthHeader(lines, k) ==
    CHOOSE i \in HeaderIndices(lines) :
        Cardinality({j \in HeaderIndices(lines) : j <= i}) = k

\* a stat line of three tab-separated fields with integer counts
WellFormedStat(line) ==
    /\ ~Contains(line, SEP)
    /\ Len(Split(line, TAB)) = 3
    /\ Split(line, TAB)[1] # <<"-">> /\ Split(line, TAB)[2] # <<"-">>
    /\ IsInt(Split(line, TAB)[1]) /\ IsInt(Split(line, TAB)[2])

FileChangeOf(line) ==
    [name |-> Split(line, TAB)[3], added |-> IntVal(Split(line, TAB)[1]),
     deleted |-> IntVal(Split(line, TAB)[2])]

\* the file changes of the well-formed stat lines after the k-th header and
\* before the next one
SectionFiles(lines, k) ==
    LET K == Cardinality(HeaderIndices(lines))
        first == NthHeader(lines, k) + 1
        last == IF k = K THEN Len(lines) ELSE NthHeader(lines, k + 1) - 1
        wf == SelectSeq(Slice(lines, first, last), WellFormedStat)
    IN  [j \in 1..Len(wf) |-> FileChangeOf(wf[j])]

\* the commits are one record per line holding the delimiter, in input
\* order, each with the hash, subject and date of its header and with the
\* file changes of exactly the well-formed stat lines between its header
\* and the next, in order
RecordsPerHeader ==
    /\ Len(commits) = Cardinality(HeaderIndices(output))
    /\ \A k \in 1..Len(commits) :
        LET parts == Split(output[NthHeader(output, k)], SEP)
        IN  /\ commits[k].hash = parts[1]
            /\ commits[k].subject = parts[2]
            /\ commits[k].date = parts[3]
            /\ commits[k].files = SectionFiles(output, k)

\* on the texts it reads to the end, parse_commit_output returns these
\* records
ReturnedRecordsPerHeader == pc = "returned" => RecordsPerHeader

\* C1: for every text, the result of parse_commit_output holds one record
\* per line holding the delimiter, in input order, each with the file
\* changes of exactly the well-formed stat lines between its header and the
\* next, in order; binary and malformed lines add nothing.
C1_RecordsPerHeader ==
    pc \in {"returned", "raised"} => (pc = "returned" /\ RecordsPerHeader)

\* a header, a binary line and a well-formed line have been parsed
ReturnedRecordsWitness ==
    /\ pc = "returned"
    /\ Len(commits) = 1
    /\ Len(commits[1].files) = 1
    /\ \E i \in 1..Len(output) : output[i] \in {LineBinary, LineHalfBinary}

\* C2: parse_commit_output never fails: no run of it ends in an exception.
C2_NeverRaises == raised = ""

(***************************************************************************)
(* categorize_commit.                                                      *)
(***************************************************************************)
UpperCase ==
    <<"A", "B", "C", "D", "E", "F", "G", "H", "I", "J", "K", "L", "M",
      "N", "O", "P", "Q", "R", "S", "T", "U", "V", "W", "X", "Y", "Z">>
LowerCase ==
    <<"a", "b", "c", "d", "e", "f", "g", "h", "i", "j", "k", "l", "m",
      "n", "o", "p", "q", "r", "s", "t", "u", "v", "w", "x", "y", "z">>

LowerChar(c) ==
    IF \E i \in 1..Len(UpperCase) : UpperCase[i] = c
    THEN LowerCase[CHOOSE i \in 1..Len(UpperCase) : UpperCase[i] = c]
    ELSE c

\* Python: s.lower()
Lower(s) == [i \in 1..Len(s) |-> LowerChar(s[i])]

WordFix == <<"f", "i", "x">>
WordBug == <<"b", "u", "g">>
WordIssue == <<"i", "s", "s", "u", "e">>
WordFeat == <<"f", "e", "a", "t">>
WordAdd == <<"a", "d", "d">>
WordNew == <<"n", "e", "w">>
WordRefactor == <<"r", "e", "f", "a", "c", "t", "o", "r">>
WordClean == <<"c", "l", "e", "a", "n">>
WordImprove == <<"i", "m", "p", "r", "o", "v", "e">>
WordTest == <<"t", "e", "s", "t">>
WordDoc == <<"d", "o", "c">>

\* Python: any(word in s for word in words)
AnyIn(s, words) == \E w \in words : Contains(s, w)

\* categorize_commit with the tests of lines 224 and 226 exchanged
categorize_commit_features_first(subj) ==
    LET s == Lower(subj)
    IN  IF AnyIn(s, {WordFeat, WordAdd, WordNew}) THEN "Features"
        ELSE IF AnyIn(s, {WordFix, WordBug, WordIssue}) THEN "Fixes"
        ELSE IF AnyIn(s, {WordRefactor, WordClean, WordImprove})
        THEN "Improvements"
        ELSE IF AnyIn(s, {WordTest}) THEN "Tests"
        ELSE IF AnyIn(s, {WordDoc}) THEN "Documentation"
        ELSE "Other"

categorize_commit(subj) ==
    LET s == Lower(subj)
    IN  IF AnyIn(s, {WordFix, WordBug, WordIssue}) THEN "Fixes"
        ELSE IF AnyIn(s, {WordFeat, WordAdd, WordNew}) THEN "Features"
        ELSE IF AnyIn(s, {WordRefactor, WordClean, WordImprove})
        THEN "Improvements"
        ELSE IF AnyIn(s, {WordTest}) THEN "Tests"
        ELSE IF AnyIn(s, {WordDoc}) THEN "Documentation"
        ELSE "Other"

(***************************************************************************)
(* SpecClassify: categorize_commit on subjects made of up to MaxWords      *)
(* pieces: keywords in several cases, pieces that form a keyword only when *)
(* put together, and text holding no keyword.                              *)
(***************************************************************************)
Pieces ==
    {<<"F", "i", "x">>, <<"B", "U", "G">>, WordIssue, WordFeat,
     <<"A", "d", "d">>, WordNew, <<"R", "e", "f", "a", "c", "t", "o", "r">>,
     WordClean, WordImprove, <<"T", "e", "s">>, <<"t", " ">>, <<"D", "O">>,
     <<"c", "s">>, <<" ", "w", "i", "p">>}

Subjects ==
    UNION {{Join(ws, <<>>) : ws \in [1..n -> Pieces]} : n \in 0..MaxWords}

InitClassify ==
    /\ pc = "call"
    /\ raised = ""
    /\ IdleParse /\ IdleFreq /\ IdleDir /\ IdleSum
    /\ subject \in Subjects
    /\ category = ""

Categorize ==
    /\ pc = "call"
    /\ category' = categorize_commit(subject)
    /\ pc' = "returned"
    /\ UNCHANGED <<raised, parseVars, subject, freqVars, dirVars, sumVars>>

NextClassify == Categorize

SpecClassify == InitClassify /\ [][NextClassify]_vars

\* the rules in the order of the specification: category and keywords
Rules ==
    << [name |-> "Fixes", words |-> {WordFix, WordBug, WordIssue}],
       [name |-> "Features", words |-> {WordFeat, WordAdd, WordNew}],
       [name |-> "Improvements",
        words |-> {WordRefactor, WordClean, WordImprove}],
       [name |-> "Tests", words |-> {WordTest}],
       [name |-> "Documentation", words |-> {WordDoc}] >>

\* the rules one of whose keywords occurs in the lower-cased subject
Matching(subj) ==
    {r \in 1..Len(Rules) : \E w \in Rules[r].words : Contains(Lower(subj), w)}

\* C8: the category is that of the earliest rule one of whose keywords
\* occurs in the lower-cased subject, and "Other" exactly when no keyword
\* occurs: a later rule never classifies a subject an earlier rule matches.
C8_FirstMatchWins ==
    pc = "returned" =>
        /\ category = "Other" <=> Matching(subject) = {}
        /\ Matching(subject) # {} =>
            /\ \E r \in Matching(subject) : category = Rules[r].name
            /\ \A r \in Matching(subject), q \in Matching(subject) :
                category = Rules[r].name => r <= q

\* a subject holding keywords of the first two rules is classified "Fixes"
C8_Witness ==
    /\ pc = "returned"
    /\ {1, 2} \subseteq Matching(subject)
    /\ category = "Fixes"

(***************************************************************************)
(* calculate_frequency_stats.  A rate is the fraction num/den with den > 0 *)
(* and is displayed in tenths, as round(rate, 1) gives it.                 *)
(***************************************************************************)
DaysPerWeek == 7
DaysPerMonthTimes100 == 3044

\* len(commits) / total_days, total_days # 0
Rate(n, d) == IF d > 0 THEN [num |-> n, den |-> d] ELSE [num |-> 0 - n, den |-> 0 - d]

Times(r, num, den) == [num |-> r.num * num, den |-> r.den * den]

AtLeastOne(r) == r.num >= r.den

MoreThanOne(r) == r.num > r.den

\* round(r, 1) in tenths.  A rate halfway between two tenths is decided by
\* the floating-point value standing for it, which lies on either side.
RoundTenths(r) ==
    LET q == (20 * r.num + r.den) \div (2 * r.den)
    IN  IF (20 * r.num + r.den) % (2 * r.den) = 0 THEN {q - 1, q} ELSE {q}

\* calculate_frequency_stats with > for >= in lines 306 and 308
calculate_frequency_stats_strict(n, d) ==
    IF n = 0 \/ d = 0 THEN {[period |-> "None", frequency |-> <<>>]}
    ELSE LET commits_per_day == Rate(n, d)
             commits_per_week == Times(commits_per_day, DaysPerWeek, 1)
             commits_per_month ==
                Times(commits_per_day, DaysPerMonthTimes100, 100)
         IN  IF MoreThanOne(commits_per_day)
             THEN {[period |-> "day", frequency |-> <<f>>] :
                        f \in RoundTenths(commits_per_day)}
             ELSE IF MoreThanOne(commits_per_week)
             THEN {[period |-> "week", frequency |-> <<f>>] :
                        f \in RoundTenths(commits_per_week)}
             ELSE {[period |-> "month", frequency |-> <<f>>] :
                        f \in RoundTenths(commits_per_month)}

\* lines 296-311: the results the call can give
calculate_frequency_stats(n, d) ==
    IF n = 0 \/ d = 0 THEN {[period |-> "None", frequency |-> <<>>]}
    ELSE LET commits_per_day == Rate(n, d)
             commits_per_week == Times(commits_per_day, DaysPerWeek, 1)
             commits_per_month ==
                Times(commits_per_day, DaysPerMonthTimes100, 100)
         IN  IF AtLeastOne(commits_per_day)
             THEN {[period |-> "day", frequency |-> <<f>>] :
                        f \in RoundTenths(commits_per_day)}
             ELSE IF AtLeastOne(commits_per_week)
             THEN {[period |-> "week", frequency |-> <<f>>] :
                        f \in RoundTenths(commits_per_week)}
             ELSE {[period |-> "month", frequency |-> <<f>>] :
                        f \in RoundTenths(commits_per_month)}

\* line 398: `if period and frequency`
FrequencyShown(per, freq) == per # "None" /\ freq # <<>> /\ freq # <<0>>

(***************************************************************************)
(* SpecFreq: calculate_frequency_stats on every commit count up to         *)
(* MaxCommits and every number of elapsed days from -MaxNegDays to MaxDays.*)
(***************************************************************************)
InitFreq ==
    /\ pc = "call"
    /\ raised = ""
    /\ IdleParse /\ IdleClass /\ IdleDir /\ IdleSum
    /\ n_commits \in 0..MaxCommits
    /\ total_days \in (0 - MaxNegDays)..MaxDays
    /\ period = "None"
    /\ frequency = <<>>

FrequencyStats ==
    /\ pc = "call"
    /\ \E r \in calculate_frequency_stats(n_commits, total_days) :
        /\ period' = r.period
        /\ frequency' = r.frequency
    /\ pc' = "returned"
    /\ UNCHANGED <<raised, parseVars, classVars, dirVars, sumVars,
                   n_commits, total_days>>

NextFreq == FrequencyStats

SpecFreq == InitFreq /\ [][NextFreq]_vars

\* C9 as amended: with at least one commit and non-zero elapsed days the
\* unit is day when commits/day >= 1, else week when commits/week >= 1, and
\* else month whatever the monthly rate is; a day or week rate is displayed
\* as at least 1.0, a month rate is the monthly rate rounded to one decimal
\* and may be below 1.0, down to 0.0, which is not shown; with zero elapsed
\* days or no commit nothing is reported.
C9_DegradeEndsAtMonth ==
    pc = "returned" =>
        IF n_commits = 0 \/ total_days = 0
        THEN period = "None" /\ frequency = <<>>
             /\ ~FrequencyShown(period, frequency)
        ELSE /\ period = "day" <=> (total_days > 0 /\ n_commits >= total_days)
             /\ period = "week" <=>
                    /\ total_days > 0 /\ n_commits < total_days
                    /\ DaysPerWeek * n_commits >= total_days
             /\ period = "month" <=>
                    ~(total_days > 0 /\ DaysPerWeek * n_commits >= total_days)
             /\ Len(frequency) = 1
             /\ period \in {"day", "week"} => frequency[1] >= 10
             /\ period = "month" =>
                    LET d == IF total_days > 0 THEN total_days
                             ELSE 0 - total_days
                        n == IF total_days > 0 THEN n_commits
                             ELSE 0 - n_commits
                        \* frequency[1]/10 - n*30.44/d, times 2000*d
                        diff == 200 * d * frequency[1]
                                    - 20 * DaysPerMonthTimes100 * n
                    IN  diff <= 100 * d /\ 0 - diff <= 100 * d

\* a rate below one commit a month has been reported
C9_Witness ==
    /\ pc = "returned"
    /\ n_commits = 1
    /\ total_days = 60
    /\ period = "month"
    /\ frequency = <<5>>

\* C9: with at least one commit and a positive number of elapsed days, the
\* unit reported is the first of day, week, month whose rate is at least 1,
\* so that the displayed rate is at least 1.0.
C9_DisplayedRateAtLeastOne ==
    (pc = "returned" /\ n_commits >= 1 /\ total_days > 0) =>
        /\ Len(frequency) = 1
        /\ frequency[1] >= 10

(***************************************************************************)
(* Directory impact: get_directory_path, group_files_by_directory,         *)
(* distribute_changes, format_directory_stats, analyze_directories.        *)
(* A dict is the sequence of its items in insertion order.                 *)
(***************************************************************************)
SLASH == <<"/">>

\* Python: sum(f[field] for f in files)
RECURSIVE SumAdded(_)
SumAdded(files) ==
    IF Len(files) = 0 THEN 0 ELSE files[1].added + SumAdded(Tail(files))

RECURSIVE SumDeleted(_)
SumDeleted(files) ==
    IF Len(files) = 0 THEN 0 ELSE files[1].deleted + SumDeleted(Tail(files))

\* lines 237-243
get_directory_path(file_path, level) ==
    LET parts == Split(file_path, SLASH)
    IN  IF Len(parts) > level
        THEN Join(Slice(parts, 1, level), SLASH)
        ELSE Join(parts, SLASH)

\* the index of key in a dict of records with field name, 0 when absent
IndexOf(dict, key) ==
    IF \E i \in 1..Len(dict) : dict[i].name = key
    THEN CHOOSE i \in 1..Len(dict) : dict[i].name = key
    ELSE 0

\* lines 246-255: the files of a commit by directory; files whose directory
\* is the empty string are left out (line 252)
RECURSIVE GroupFiles(_, _, _)
GroupFiles(files, level, files_by_dir) ==
    IF Len(files) = 0 THEN files_by_dir
    ELSE LET directory == get_directory_path(files[1].name, level)
             i == IndexOf(files_by_dir, directory)
             next ==
                IF directory = <<>> THEN files_by_dir
                ELSE IF i = 0
                THEN Append(files_by_dir,
                            [name |-> directory, files |-> <<files[1]>>])
                ELSE [files_by_dir EXCEPT ![i].files = Append(@, files[1])]
         IN  GroupFiles(Tail(files), level, next)

group_files_by_directory(commit, level) == GroupFiles(commit.files, level, <<>>)

\* dir_stats[directory] of a defaultdict: the entry is made when missing
WithEntry(stats, directory) ==
    IF IndexOf(stats, directory) # 0 THEN stats
    ELSE Append(stats, [name |-> directory, files |-> {}, added |-> 0,
                        deleted |-> 0])

\* distribute_changes with = for += in lines 262-263
RECURSIVE distribute_changes_overwrite(_, _, _)
distribute_changes_overwrite(commit, files_by_dir, stats) ==
    IF Len(files_by_dir) = 0 THEN stats
    ELSE LET g == files_by_dir[1]
             st == WithEntry(stats, g.name)
             i == IndexOf(st, g.name)
             next ==
                [st EXCEPT
                    ![i].files = @ \cup {g.files[k].name : k \in 1..Len(g.files)},
                    ![i].added = SumAdded(g.files),
                    ![i].deleted = SumDeleted(g.files)]
         IN  distribute_changes_overwrite(commit, Tail(files_by_dir), next)

\* lines 258-263
RECURSIVE distribute_changes(_, _, _)
distribute_changes(commit, files_by_dir, stats) ==
    IF Len(files_by_dir) = 0 THEN stats
    ELSE LET g == files_by_dir[1]
             st == WithEntry(stats, g.name)
             i == IndexOf(st, g.name)
             next ==
                [st EXCEPT
                    ![i].files = @ \cup {g.files[k].name : k \in 1..Len(g.files)},
                    ![i].added = @ + SumAdded(g.files),
                    ![i].deleted = @ + SumDeleted(g.files)]
         IN  distribute_changes(commit, Tail(files_by_dir), next)

\* Python: sorted(list, key=total_impact, reverse=True), which is stable:
\* x goes after the entries whose impact is at least its own
InsertByImpact(sorted, x) ==
    LET n == Cardinality({i \in 1..Len(sorted) :
                            sorted[i].total_impact >= x.total_impact})
    IN  Slice(sorted, 1, n) \o <<x>> \o Slice(sorted, n + 1, Len(sorted))

RECURSIVE SortByImpact(_, _)
SortByImpact(list, sorted) ==
    IF Len(list) = 0 THEN sorted
    ELSE SortByImpact(Tail(list), InsertByImpact(sorted, list[1]))

\* lines 314-327
format_directory_stats(stats) ==
    SortByImpact(
        [i \in 1..Len(stats) |->
            [name |-> stats[i].name,
             files |-> Cardinality(stats[i].files),
             added |-> stats[i].added,
             deleted |-> stats[i].deleted,
             total_impact |-> stats[i].added + stats[i].deleted]],
        <<>>)

\* lines 334-336: the body of the loop of analyze_directories
AnalyzeOne(commit, level, stats) ==
    distribute_changes(commit, group_files_by_directory(commit, level), stats)

RECURSIVE AnalyzeAll(_, _, _)
AnalyzeAll(cs, level, stats) ==
    IF Len(cs) = 0 THEN stats
    ELSE AnalyzeAll(Tail(cs), level, AnalyzeOne(cs[1], level, stats))

\* lines 330-338
analyze_directories(cs, level) ==
    format_directory_stats(AnalyzeAll(cs, level, <<>>))

(***************************************************************************)
(* SpecDir: analyze_directories at every depth up to MaxLevel on up to     *)
(* MaxAnalysed commits of up to MaxFiles file changes each.  The paths are *)
(* the one of the specification's example, a second path under the same    *)
(* directory, and two paths git does not print for a file but the parser   *)
(* accepts from a line of a commit body that has the shape of a stat line: *)
(* a path that starts with "/", and the empty path.                        *)
(***************************************************************************)
FileChangeSet ==
    {[name |-> <<"a", "/", "b", "/", "c", ".", "t", "x", "t">>,
      added |-> 3, deleted |-> 1],
     [name |-> <<"a", "/", "d">>, added |-> 2, deleted |-> 0],
     [name |-> <<"/", "r">>, added |-> 5, deleted |-> 2],
     [name |-> <<>>, added |-> 1, deleted |-> 1]}

FileLists == UNION {[1..n -> FileChangeSet] : n \in 0..MaxFiles}

BagOfFiles(files) ==
    LET elems == {files[k] : k \in 1..Len(files)}
    IN  [f \in elems |-> Cardinality({k \in 1..Len(files) : files[k] = f})]

InitDir ==
    /\ pc = "loop"
    /\ raised = ""
    /\ IdleParse /\ IdleClass /\ IdleFreq /\ IdleSum
    /\ dir_level \in 1..MaxLevel
    /\ dir_stats = <<>>
    /\ directories = <<>>
    /\ file_changes = EmptyBag
    /\ total_added = 0
    /\ total_deleted = 0

\* one iteration of the loop of line 334, on a commit as parse_commit
\* returns it; total_added and total_deleted are the sums of lines 402-403
\* over the commits analysed so far
AnalyzeCommit ==
    /\ pc = "loop"
    /\ idx < MaxAnalysed
    /\ \E files \in FileLists :
        /\ dir_stats' = AnalyzeOne([files |-> files], dir_level, dir_stats)
        /\ file_changes' = file_changes (+) BagOfFiles(files)
        /\ total_added' = total_added + SumAdded(files)
        /\ total_deleted' = total_deleted + SumDeleted(files)
    /\ idx' = idx + 1
    /\ UNCHANGED <<pc, raised, output, commits, current_commit,
                   active_emails, classVars, freqVars, sumVars, dir_level,
                   directories>>

\* line 338
FormatDirectoryStats ==
    /\ pc = "loop"
    /\ directories' = format_directory_stats(dir_stats)
    /\ pc' = "returned"
    /\ UNCHANGED <<raised, parseVars, classVars, freqVars, sumVars,
                   dir_level, dir_stats, file_changes, total_added,
                   total_deleted>>

NextDir == AnalyzeCommit \/ FormatDirectoryStats

SpecDir == InitDir /\ [][NextDir]_vars

\* the positions of "/" in a path
SlashPositions(path) == {i \in 1..Len(path) : path[i] = "/"}

\* the first n "/"-separated segments of a path: the whole path when it has
\* at most n segments, else what precedes its n-th "/"
FirstSegments(path, n) ==
    IF Cardinality(SlashPositions(path)) < n THEN path
    ELSE LET cut == CHOOSE i \in SlashPositions(path) :
                        Cardinality({j \in SlashPositions(path) : j <= i}) = n
         IN  Slice(path, 1, cut - 1)

RECURSIVE BagTotal(_, _, _)
\* the sum of field "added" (which = 1) or "deleted" over the file changes
\* of bag B that are in set S
BagTotal(B, S, which) ==
    IF S = {} THEN 0
    ELSE LET f == CHOOSE x \in S : TRUE
         IN  B[f] * (IF which = 1 THEN f.added ELSE f.deleted)
                + BagTotal(B, S \ {f}, which)

RECURSIVE SeqTotal(_, _)
SeqTotal(list, which) ==
    IF Len(list) = 0 THEN 0
    ELSE (IF which = 1 THEN list[1].added ELSE list[1].deleted)
            + SeqTotal(Tail(list), which)

\* the file changes analysed whose path has the prefix p at depth dir_level
Attributed(p) ==
    {f \in DOMAIN file_changes : FirstSegments(f.name, dir_level) = p}

\* C7 as amended: a file change is attributed to the first dir_level
\* segments of its path when that prefix is not the empty string, and to no
\* prefix when it is (the empty path, or a path starting with "/" at depth
\* 1); each reported prefix's added and deleted totals are the sums over
\* exactly the file changes attributed to it, so the prefixes' totals add
\* up to the total added and deleted lines less those of the file changes
\* whose prefix is empty.
C7_PrefixTotals ==
    pc = "returned" =>
        /\ \A i \in 1..Len(directories) :
            /\ directories[i].name # <<>>
            /\ Attributed(directories[i].name) # {}
            /\ directories[i].added =
                    BagTotal(file_changes, Attributed(directories[i].name), 1)
            /\ directories[i].deleted =
                    BagTotal(file_changes, Attributed(directories[i].name), 2)
            /\ \A j \in 1..Len(directories) :
                    directories[i].name = directories[j].name => i = j
        /\ \A f \in DOMAIN file_changes :
                FirstSegments(f.name, dir_level) # <<>> =>
                    \E i \in 1..Len(directories) :
                        directories[i].name = FirstSegments(f.name, dir_level)
        /\ SeqTotal(directories, 1) =
                total_added - BagTotal(file_changes, Attributed(<<>>), 1)
        /\ SeqTotal(directories, 2) =
                total_deleted - BagTotal(file_changes, Attributed(<<>>), 2)

\* a directory has received two file changes and a file change with an
\* empty prefix has been left out
C7_Witness ==
    /\ pc = "returned"
    /\ Len(directories) = 1
    /\ directories[1].added = 5
    /\ Attributed(<<>>) # {}
    /\ total_added > 5

\* C7: each file change is attributed to exactly one prefix, and the
\* prefixes' totals add up to the total added and total deleted lines.
C7_TotalsAddUp ==
    pc = "returned" =>
        /\ \A f \in DOMAIN file_changes :
                \E i \in 1..Len(directories) :
                    directories[i].name = FirstSegments(f.name, dir_level)
        /\ SeqTotal(directories, 1) = total_added
        /\ SeqTotal(directories, 2) = total_deleted

(***************************************************************************)
(* parse_commit and the dates it reads.                                    *)
(***************************************************************************)
MERGE_BRANCH == <<"M", "e", "r", "g", "e", " ", "b", "r", "a", "n", "c", "h">>
DASH == <<"-">>

AllDigits(s) == Len(s) > 0 /\ \A k \in 1..Len(s) : s[k] \in DigitSet

LeapYear(y) == (y % 4 = 0 /\ y % 100 # 0) \/ y % 400 = 0

DaysInMonth(y, m) ==
    IF m = 2 THEN (IF LeapYear(y) THEN 29 ELSE 28)
    ELSE IF m \in {4, 6, 9, 11} THEN 30 ELSE 31

\* datetime.strptime(s, "%Y-%m-%d") does not raise ValueError
ValidDate(s) ==
    LET parts == Split(s, DASH)
    IN  /\ Len(parts) = 3
        /\ AllDigits(parts[1]) /\ Len(parts[1]) = 4
        /\ AllDigits(parts[2]) /\ Len(parts[2]) <= 2
        /\ AllDigits(parts[3]) /\ Len(parts[3]) <= 2
        /\ DigitsVal(parts[1]) >= 1
        /\ DigitsVal(parts[2]) \in 1..12
        /\ DigitsVal(parts[3]) \in
                1..DaysInMonth(DigitsVal(parts[1]), DigitsVal(parts[2]))

\* datetime.strptime(s, "%Y-%m-%d").date()
Strptime(s) ==
    LET parts == Split(s, DASH)
    IN  [year |-> DigitsVal(parts[1]), month |-> DigitsVal(parts[2]),
         day |-> DigitsVal(parts[3])]

RECURSIVE DaysBeforeMonth(_, _)
DaysBeforeMonth(y, m) ==
    IF m = 1 THEN 0 ELSE DaysBeforeMonth(y, m - 1) + DaysInMonth(y, m - 1)

\* date.toordinal(): dates are ordered, and subtracted, by it
Ordinal(d) ==
    LET y == d.year - 1
    IN  365 * y + (y \div 4) - (y \div 100) + (y \div 400)
            + DaysBeforeMonth(d.year, d.month) + d.day

Max0(x) == IF x > 0 THEN x ELSE 0

\* line 203: parse_commit returns None
IsMerge(commit) == StartsWith(commit.subject, MERGE_BRANCH)

\* parse_commit with added + deleted for line 216
parse_commit_impact_is_churn(commit) ==
    [hash |-> commit.hash,
     subject |-> commit.subject,
     date |-> Strptime(commit.date),
     files |-> commit.files,
     added |-> SumAdded(commit.files),
     deleted |-> SumDeleted(commit.files),
     total_impact |-> SumAdded(commit.files) + SumDeleted(commit.files)]

\* lines 206-218: parse_commit of a commit that is no merge and has a date
parse_commit(commit) ==
    [hash |-> commit.hash,
     subject |-> commit.subject,
     date |-> Strptime(commit.date),
     files |-> commit.files,
     added |-> SumAdded(commit.files),
     deleted |-> SumDeleted(commit.files),
     total_impact |-> Max0(SumAdded(commit.files) - SumDeleted(commit.files))]

\* line 362: the commits parse_commit keeps
RECURSIVE ParseAll(_)
ParseAll(cs) ==
    IF Len(cs) = 0 THEN <<>>
    ELSE IF IsMerge(cs[1]) THEN ParseAll(Tail(cs))
    ELSE <<parse_commit(cs[1])>> \o ParseAll(Tail(cs))

\* line 362 raises ValueError: strptime on the date of a commit that is
\* no merge
ParseAllRaises(cs) ==
    \E i \in 1..Len(cs) : ~IsMerge(cs[i]) /\ ~ValidDate(cs[i].date)

(***************************************************************************)
(* calculate_cocomo_stats.  The powers of lines 277 and 280 are not        *)
(* computed: x ** b with b > 0 is 0.0 exactly when x is, and no size of at *)
(* least one line underflows.                                              *)
(***************************************************************************)
LinesPerKloc == 1000

\* lines 266-294: the locals of the call, and the exception it raises
calculate_cocomo_stats(added_lines, deleted_lines, pure_cocomo, impact) ==
    LET total_lines ==
            IF pure_cocomo THEN Max0(added_lines - deleted_lines) ELSE impact
        kloc == [num |-> total_lines, den |-> LinesPerKloc]
        effort_is_zero == (kloc.num = 0)
        time_is_zero == effort_is_zero
    IN  [total_lines |-> total_lines,
         kloc |-> kloc,
         effort_is_zero |-> effort_is_zero,
         time_is_zero |-> time_is_zero,
         raised |-> IF time_is_zero THEN "ZeroDivisionError" ELSE ""]

(***************************************************************************)
(* The repository and git.  A commit of the repository has an author       *)
(* email, a subject, a body, the day of January 2024 it was made on, its   *)
(* age in days when the program runs, and its numstat lines; rank orders   *)
(* the log, newest first.  `git log` is modelled by what the program       *)
(* relies on: --author selects the commits whose author holds one of the   *)
(* values, --since those young enough, and each commit is printed as its   *)
(* formatted header (lines 147-148), the rest of its body and its numstat  *)
(* lines, with a blank line between commits.  A revision range             *)
(* (diverged_from) selects a part of the history, and history ranges over  *)
(* all of them.                                                            *)
(***************************************************************************)
DaysPerYear == 365

EmailU == <<"u", "@", "x">>
EmailV == <<"v", "@", "y">>
EmailW == <<"w", "@", "x">>

RepoCommits ==
    {[rank |-> 4, hash |-> <<"a", "1">>, subject |-> <<"f", "i", "x">>,
      email |-> EmailU, day |-> 5, age |-> 15, body |-> <<>>,
      numstat |-> <<LineStat1>>],
     [rank |-> 3, hash |-> <<"b", "2">>,
      subject |-> MERGE_BRANCH \o <<" ", "m">>,
      email |-> EmailV, day |-> 14, age |-> 6, body |-> <<>>,
      numstat |-> <<>>],
     [rank |-> 2, hash |-> <<"c", "3">>,
      subject |-> <<"a", "d", "d", " ", "d", "o", "c">>,
      email |-> EmailU, day |-> 14, age |-> 6, body |-> <<>>,
      numstat |-> <<Join(<<<<"0">>, <<"4">>, <<"c">>>>, TAB), LineBinary>>],
     [rank |-> 1, hash |-> <<"d", "4">>, subject |-> <<"n", "e", "w">>,
      email |-> EmailW, day |-> 20, age |-> 0, body |-> <<LineText>>,
      numstat |-> <<LineStat2>>]}

\* %ad with --date=short
GitDate(day) ==
    <<"2", "0", "2", "4", "-", "0", "1", "-",
      Digits[(day \div 10) + 1], Digits[(day % 10) + 1]>>

\* the lines git prints for one commit
GitCommitLines(c) ==
    LET first == IF Len(c.body) = 0 THEN <<>> ELSE c.body[1]
        rest == IF Len(c.body) = 0 THEN <<>> ELSE Tail(c.body)
    IN  <<Join(<<c.hash, c.subject, GitDate(c.day), c.email, first>>, SEP)>>
            \o rest \o c.numstat

\* the commits of set H in log order
RECURSIVE LogOrder(_)
LogOrder(H) ==
    IF H = {} THEN <<>>
    ELSE LET c == CHOOSE x \in H : \A y \in H : x.rank <= y.rank
         IN  <<c>> \o LogOrder(H \ {c})

RECURSIVE GitPrint(_)
GitPrint(cs) ==
    IF Len(cs) = 0 THEN <<>>
    ELSE IF Len(cs) = 1 THEN GitCommitLines(cs[1])
    ELSE GitCommitLines(cs[1]) \o <<LineBlank>> \o GitPrint(Tail(cs))

\* lines 127-135: the age in days --since allows, -1 for no limit
SinceDays(a) ==
    IF a.days # 0 THEN a.days
    ELSE IF a.weeks # 0 THEN a.weeks * DaysPerWeek
    ELSE IF a.months # 0 THEN a.months * 30
    ELSE IF a.years # 0 THEN a.years * DaysPerYear
    ELSE 0 - 1

\* the stdout of the git log of lines 147-152, as lines
GitLog(H, authors, since) ==
    GitPrint(LogOrder(
        {c \in H :
            /\ authors = {} \/ \E a \in authors : Contains(c.email, a)
            /\ since < 0 \/ c.age <= since}))

\* Python: text.strip(), on the lines of the text
RECURSIVE StripText(_)
StripText(lines) ==
    IF Len(lines) = 0 THEN <<LineBlank>>
    ELSE IF Strip(lines[1]) = <<>> THEN StripText(Tail(lines))
    ELSE IF Strip(lines[Len(lines)]) = <<>>
    THEN StripText(Slice(lines, 1, Len(lines) - 1))
    ELSE IF Len(lines) = 1 THEN <<Strip(lines[1])>>
    ELSE <<LStrip(lines[1])>> \o Slice(lines, 2, Len(lines) - 1)
            \o <<RStrip(lines[Len(lines)])>>

\* lines 104-109: the emails of the whole log that hold the pattern
get_emails_by_pattern(H, pattern) ==
    LET stdout_lines == StripText([i \in 1..Len(LogOrder(H)) |->
                                        LogOrder(H)[i].email])
        all_emails == {stdout_lines[i] : i \in 1..Len(stdout_lines)}
    IN  {e \in all_emails : Contains(e, pattern)}

(***************************************************************************)
(* generate_summary.                                                       *)
(***************************************************************************)
HeavyCount == 5
RecentCount == 5
TopDirectories == 10
HashShown == 7

\* Python: list[:n]
Take(list, n) == Slice(list, 1, IF Len(list) < n THEN Len(list) ELSE n)

\* lines 112-163: the query, its output and the result
get_user_commits(H, mails, a) ==
    LET authors == mails
        out == StripText(GitLog(H, authors, SinceDays(a)))
        p == IF out # <<LineBlank>> THEN parse_commit_output(out)
             ELSE ParserInit
    IN  [author_args |-> authors,
         output |-> out,
         raised |-> p.raised,
         commits |-> p.commits,
         active_emails |-> IF p.commits = <<>> THEN {} ELSE p.active_emails]

\* lines 370-373 and 418-426: per category, the count and the lines
CategoryStats(parsed) ==
    {[category |-> cat,
      count |-> Len(SelectSeq(parsed,
                    LAMBDA c : categorize_commit(c.subject) = cat)),
      added |-> SumAdded(SelectSeq(parsed,
                    LAMBDA c : categorize_commit(c.subject) = cat)),
      deleted |-> SumDeleted(SelectSeq(parsed,
                    LAMBDA c : categorize_commit(c.subject) = cat))] :
        cat \in {categorize_commit(parsed[i].subject) : i \in 1..Len(parsed)}}

\* Python: sorted(list, key=added + deleted, reverse=True), which is stable
InsertByChurn(sorted, x) ==
    LET n == Cardinality({i \in 1..Len(sorted) :
                sorted[i].added + sorted[i].deleted >= x.added + x.deleted})
    IN  Slice(sorted, 1, n) \o <<x>> \o Slice(sorted, n + 1, Len(sorted))

RECURSIVE SortByChurn(_, _)
SortByChurn(list, sorted) ==
    IF Len(list) = 0 THEN sorted
    ELSE SortByChurn(Tail(list), InsertByChurn(sorted, list[1]))

\* what lines 436 and 444 print of a commit
CommitShown(c) ==
    [hash |-> Take(c.hash, HashShown), subject |-> c.subject,
     added |-> c.added, deleted |-> c.deleted]

\* lines 430-437
HeavyCommits(parsed) ==
    LET top == Take(SortByChurn(parsed, <<>>), HeavyCount)
    IN  [i \in 1..Len(top) |-> CommitShown(top[i])]

\* the dates of a set, latest first
RECURSIVE DatesDescending(_)
DatesDescending(D) ==
    IF D = {} THEN <<>>
    ELSE LET d == CHOOSE x \in D : \A y \in D : Ordinal(x) >= Ordinal(y)
         IN  <<d>> \o DatesDescending(D \ {d})

\* lines 365-367 and 440-445
RecentActivity(parsed) ==
    LET dates == Take(DatesDescending({parsed[i].date : i \in 1..Len(parsed)}),
                      RecentCount)
    IN  [k \in 1..Len(dates) |->
            LET on == SelectSeq(parsed, LAMBDA c : c.date = dates[k])
            IN  [date |-> dates[k],
                 commits |-> [i \in 1..Len(on) |-> CommitShown(on[i])]]]

\* lines 392-395: max() and min() raise ValueError on no commit
SpanRaises(a, parsed) ==
    a.days = 0 /\ a.weeks = 0 /\ a.years = 0 /\ Len(parsed) = 0

\* lines 385-395
TotalDays(a, parsed) ==
    IF a.days # 0 THEN a.days
    ELSE IF a.weeks # 0 THEN a.weeks * DaysPerWeek
    ELSE IF a.years # 0 THEN a.years * DaysPerYear
    ELSE LET ords == {Ordinal(parsed[i].date) : i \in 1..Len(parsed)}
             latest == CHOOSE x \in ords : \A y \in ords : x >= y
             earliest == CHOOSE x \in ords : \A y \in ords : x <= y
         IN  latest - earliest + 1

\* lines 402-404 and 410
CocomoOf(a, parsed) ==
    LET impacts == [i \in 1..Len(parsed) |->
                        [added |-> parsed[i].total_impact, deleted |-> 0]]
    IN  calculate_cocomo_stats(SumAdded(parsed), SumDeleted(parsed),
                               a.pure_cocomo, SumAdded(impacts))

(***************************************************************************)
(* SpecSummary: generate_summary in every history made of RepoCommits,     *)
(* with no author filter, a list of emails or an email pattern, with no    *)
(* time window or one of up to MaxWindow days, weeks, months or years (the *)
(* options exclude each other, lines 22 and 33), with and without the pure *)
(* flag, at every depth up to MaxLevel.  The salary only scales the cost   *)
(* and is left out.                                                        *)
(***************************************************************************)
Windows ==
    {w \in [days : 0..MaxWindow, weeks : 0..MaxWindow, months : 0..MaxWindow,
            years : 0..MaxWindow] :
        Cardinality({f \in {"days", "weeks", "months", "years"} : w[f] # 0})
            <= 1}

Selectors ==
    {[emails |-> {}, email_contains |-> <<>>],
     [emails |-> {EmailU}, email_contains |-> <<>>],
     [emails |-> {}, email_contains |-> <<"@", "x">>],
     [emails |-> {}, email_contains |-> <<"z", "z">>]}

ArgSets ==
    {[emails |-> sel.emails, email_contains |-> sel.email_contains,
      days |-> w.days, weeks |-> w.weeks, months |-> w.months,
      years |-> w.years, pure_cocomo |-> pure] :
        sel \in Selectors, w \in Windows, pure \in BOOLEAN}

InitSummary ==
    /\ pc = "start"
    /\ raised = ""
    /\ IdleParse /\ IdleClass /\ IdleFreq
    /\ dir_level \in 1..MaxLevel
    /\ dir_stats = <<>>
    /\ directories = <<>>
    /\ file_changes = EmptyBag
    /\ total_added = 0
    /\ total_deleted = 0
    /\ history \in SUBSET RepoCommits
    /\ args \in ArgSets
    /\ emails = {}
    /\ author_args = {}
    /\ parsed_commits = <<>>
    /\ cocomo = <<>>
    /\ report = NoReport
    /\ stdout = <<>>

\* lines 353-354
EmailsByPattern ==
    /\ pc = "start"
    /\ emails' = IF args.email_contains # <<>>
                 THEN get_emails_by_pattern(history, args.email_contains)
                 ELSE args.emails
    /\ pc' = "fetch"
    /\ UNCHANGED <<raised, parseVars, classVars, freqVars, dirVars, history,
                   args, author_args, parsed_commits, cocomo, report, stdout>>

\* lines 355-357
GetUserCommits ==
    /\ pc = "fetch"
    /\ LET r == get_user_commits(history, emails, args)
       IN  /\ author_args' = r.author_args
           /\ output' = r.output
           /\ commits' = r.commits
           /\ active_emails' = r.active_emails
           /\ raised' = r.raised
           /\ pc' = IF r.raised # "" THEN "raised" ELSE "fetched"
    /\ UNCHANGED <<idx, current_commit, classVars, freqVars, dirVars, history,
                   args, emails, parsed_commits, cocomo, report, stdout>>

\* lines 358-360
NoCommitsFound ==
    /\ pc = "fetched"
    /\ commits = <<>>
    /\ stdout' = <<"No commits found">>
    /\ pc' = "done"
    /\ UNCHANGED <<raised, parseVars, classVars, freqVars, dirVars, history,
                   args, emails, author_args, parsed_commits, cocomo, report>>

\* lines 362-382
ParseCommits ==
    /\ pc = "fetched"
    /\ commits # <<>>
    /\ IF ParseAllRaises(commits)
       THEN /\ raised' = "ValueError"
            /\ pc' = "raised"
            /\ UNCHANGED <<parsed_commits, report, stdout>>
       ELSE /\ parsed_commits' = ParseAll(commits)
            /\ report' = [report EXCEPT
                            !.commits_by = active_emails,
                            !.total_commits = Len(ParseAll(commits))]
            /\ stdout' = <<"Git Commit Summary", "Commits by",
                           "Total commits">>
            /\ pc' = "frequency"
            /\ UNCHANGED raised
    /\ UNCHANGED <<parseVars, classVars, freqVars, dirVars, history, args,
                   emails, author_args, cocomo>>

\* lines 384-399
CommitFrequency ==
    /\ pc = "frequency"
    /\ IF SpanRaises(args, parsed_commits)
       THEN /\ raised' = "ValueError"
            /\ pc' = "raised"
            /\ UNCHANGED <<freqVars, stdout>>
       ELSE /\ n_commits' = Len(parsed_commits)
            /\ total_days' = TotalDays(args, parsed_commits)
            /\ \E r \in calculate_frequency_stats(Len(parsed_commits),
                                TotalDays(args, parsed_commits)) :
                /\ period' = r.period
                /\ frequency' = r.frequency
                /\ stdout' = IF FrequencyShown(r.period, r.frequency)
                             THEN Append(stdout, "Commit frequency")
                             ELSE stdout
            /\ pc' = "cocomo"
            /\ UNCHANGED raised
    /\ UNCHANGED <<parseVars, classVars, dirVars, history, args, emails,
                   author_args, parsed_commits, cocomo, report>>

\* lines 401-415
CocomoEstimates ==
    /\ pc = "cocomo"
    /\ total_added' = SumAdded(parsed_commits)
    /\ total_deleted' = SumDeleted(parsed_commits)
    /\ LET c == CocomoOf(args, parsed_commits)
       IN  /\ cocomo' = <<c>>
           /\ raised' = c.raised
           /\ pc' = IF c.raised # "" THEN "raised" ELSE "rest"
           /\ stdout' = IF c.raised # "" THEN Append(stdout, "Lines changed")
                        ELSE stdout \o <<"Lines changed", "COCOMO Estimates">>
    /\ UNCHANGED <<parseVars, classVars, freqVars, dir_level, dir_stats,
                   directories, file_changes, history, args, emails,
                   author_args, parsed_commits, report>>

\* lines 417-454
ReportRest ==
    /\ pc = "rest"
    /\ report' = [report EXCEPT
                    !.categories = CategoryStats(parsed_commits),
                    !.heavy_commits = HeavyCommits(parsed_commits),
                    !.recent = RecentActivity(parsed_commits)]
    /\ dir_stats' = AnalyzeAll(parsed_commits, dir_level, <<>>)
    /\ directories' =
            Take(analyze_directories(parsed_commits, dir_level), TopDirectories)
    /\ stdout' = stdout \o <<"Commits by category", "Heavy changes",
                             "Recent activity">>
                    \o (IF analyze_directories(parsed_commits, dir_level) # <<>>
                        THEN <<"Files impact">> ELSE <<>>)
    /\ pc' = "done"
    /\ UNCHANGED <<raised, parseVars, classVars, freqVars, dir_level,
                   file_changes, total_added, total_deleted, history, args,
                   emails, author_args, parsed_commits, cocomo>>

NextSummary ==
    \/ EmailsByPattern
    \/ GetUserCommits
    \/ NoCommitsFound
    \/ ParseCommits
    \/ CommitFrequency
    \/ CocomoEstimates
    \/ ReportRest

SpecSummary == InitSummary /\ [][NextSummary]_vars

\* the run has ended, by a return or by an exception
Ended == pc \in {"done", "raised"}

\* C3: when no commit remains to be aggregated (nothing was fetched, or
\* every fetched commit is a "Merge branch" commit), whatever the time
\* window, generate_summary prints "No commits found" and returns without
\* raising.
C3_NoCommitsIsNoError ==
    (Ended /\ \A i \in 1..Len(commits) : IsMerge(commits[i])) =>
        /\ pc = "done"
        /\ raised = ""
        /\ stdout = <<"No commits found">>

\* the lines of a log without the records of its "Merge branch" commits: a
\* record is a header and the lines up to the next header
RECURSIVE WithoutMerge(_, _)
WithoutMerge(lines, dropping) ==
    IF Len(lines) = 0 THEN <<>>
    ELSE IF Contains(lines[1], SEP)
    THEN IF StartsWith(Split(lines[1], SEP)[2], MERGE_BRANCH)
         THEN WithoutMerge(Tail(lines), TRUE)
         ELSE <<lines[1]>> \o WithoutMerge(Tail(lines), FALSE)
    ELSE IF dropping THEN WithoutMerge(Tail(lines), TRUE)
    ELSE <<lines[1]>> \o WithoutMerge(Tail(lines), dropping)

\* C4: every value of a printed report is the value the log without the
\* records of its "Merge branch" commits gives: the authors, the commit
\* count, the added and deleted lines, the COCOMO basis, the categories,
\* the heavy changes, the recent activity, the frequency span and the
\* directory impact.
C4_MergeCommitsLeaveNoTrace ==
    (pc = "done" /\ stdout # <<"No commits found">>) =>
        LET ref == parse_commit_output(WithoutMerge(output, FALSE))
            refParsed == ParseAll(ref.commits)
        IN  /\ report.total_commits = Len(refParsed)
            /\ total_added = SumAdded(refParsed)
            /\ total_deleted = SumDeleted(refParsed)
            /\ cocomo[1].total_lines = CocomoOf(args, refParsed).total_lines
            /\ report.categories = CategoryStats(refParsed)
            /\ report.heavy_commits = HeavyCommits(refParsed)
            /\ report.recent = RecentActivity(refParsed)
            /\ total_days = TotalDays(args, refParsed)
            /\ directories =
                Take(analyze_directories(refParsed, dir_level), TopDirectories)
            /\ report.commits_by = ref.active_emails

\* the added (which = 1) or deleted lines of the files of a parsed commit
FileLines(c, which) == SeqTotal(c.files, which)

RECURSIVE NetGrowth(_)
\* the sum over the commits of their added less their deleted lines, where
\* that is positive
NetGrowth(parsed) ==
    IF Len(parsed) = 0 THEN 0
    ELSE Max0(FileLines(parsed[1], 1) - FileLines(parsed[1], 2))
            + NetGrowth(Tail(parsed))

RECURSIVE AllLines(_, _)
AllLines(parsed, which) ==
    IF Len(parsed) = 0 THEN 0
    ELSE FileLines(parsed[1], which) + AllLines(Tail(parsed), which)

\* C5 as amended: without the pure flag the size fed to the COCOMO formula
\* is the sum over the aggregated commits of max(0, added - deleted) of the
\* commit; with the pure flag it is max(0, total added - total deleted);
\* KLOC is that size divided by 1000.
C5_CocomoBasis ==
    cocomo # <<>> =>
        /\ cocomo[1].total_lines =
                IF args.pure_cocomo
                THEN Max0(AllLines(parsed_commits, 1)
                            - AllLines(parsed_commits, 2))
                ELSE NetGrowth(parsed_commits)
        /\ cocomo[1].kloc.num = cocomo[1].total_lines
        /\ cocomo[1].kloc.den = 1000

\* without the pure flag, commits that add 3 and delete 5 lines in all
\* give a size of 2
C5_Witness ==
    /\ cocomo # <<>>
    /\ ~args.pure_cocomo
    /\ total_added = 3
    /\ total_deleted = 5
    /\ cocomo[1].total_lines = 2

\* C5: without the pure flag the size fed to the COCOMO formula is total
\* added + total deleted; with it, max(0, total added - total deleted).
C5_BasisIsAddedPlusDeleted ==
    cocomo # <<>> =>
        cocomo[1].total_lines =
            IF args.pure_cocomo
            THEN Max0(AllLines(parsed_commits, 1) - AllLines(parsed_commits, 2))
            ELSE AllLines(parsed_commits, 1) + AllLines(parsed_commits, 2)

\* C6: when the size is 0, calculate_cocomo_stats raises no exception and
\* returns its result.
C6_ZeroSizeNoException ==
    (cocomo # <<>> /\ cocomo[1].total_lines = 0) =>
        /\ raised = ""
        /\ pc # "raised"

\* C10: with an email pattern, the query has one author filter per email
\* of the history that holds the pattern, no commit of an author whose
\* email lacks the pattern is fetched, and when no email holds the pattern
\* the run reports no commits.
C10_PatternRestrictsFetch ==
    (args # <<>> /\ args.email_contains # <<>> /\ pc \notin {"start", "fetch"}) =>
        LET matching == {c.email : c \in {h \in history :
                            Contains(h.email, args.email_contains)}}
        IN  /\ author_args = matching
            /\ \A e \in active_emails : Contains(e, args.email_contains)
            /\ matching = {} =>
                    /\ commits = <<>>
                    /\ pc = "done" => stdout = <<"No commits found">>

=============================================================================
